---- MODULE Spec2Model ----
(***************************************************************************)
(* Model of databuilder/utils/hive_complex_type_parser.py: the pyparsing   *)
(* grammar for Hive type strings and parse_hive_type, the recursive        *)
(* builder of the TypeMetadata tree.                                       *)
(*                                                                         *)
(* A type string is a sequence of symbols.  A symbol is one character      *)
(* ("<", ">", ",", ":", "(", ")", a letter, a digit) or a run of letters   *)
(* spelling one of the grammar's keywords ("array", "map", "struct",       *)
(* "uniontype"), so that Keyword and Word see the same character classes   *)
(* as in the source.  The strings of the model hold no white space.        *)
(*                                                                         *)
(* A pyparsing expression is an operator of the string s and a position i  *)
(* (1-based) returning a ParseResults record: end is the position after    *)
(* the match (Fail when the expression does not match at i), list the      *)
(* tokens, names the named results.  pyparsing never backtracks into an    *)
(* alternative or a repetition it has left, and neither do the operators.  *)
(***************************************************************************)
EXTENDS Integers, Sequences, FiniteSets, TLC

\* ------------------------------------------------------------ bounds
MaxLen == 3
MaxDepth == 2

\* ------------------------------------------------------------ characters
Keywords == {"array", "map", "struct", "uniontype"}
nums == {"1"}
alphanums == Keywords \cup {"a", "A", "ARRAY", "1"}
identChars == alphanums

\* mutant of lower: the string is left as it is
lower_identity(s) == s

\* str.lower(), symbol by symbol
lower_sym(c) == CASE c = "A" -> "a" [] c = "ARRAY" -> "array" [] OTHER -> c
lower(s) == [k \in 1..Len(s) |-> lower_sym(s[k])]

\* ------------------------------------------------------------ ParseResults
Fail == 0
NoNames == [n \in {} |-> <<>>]
NoMatch == [end |-> Fail, list |-> <<>>, names |-> NoNames]
Match(e, l, n) == [end |-> e, list |-> l, names |-> n]
\* the empty match at i
Empty(i) == Match(i, <<>>, NoNames)
\* a string token, and a Group (a nested ParseResults)
Tok(text) == [g |-> FALSE, text |-> text, list |-> <<>>, names |-> NoNames]
Grp(pr) == [g |-> TRUE, text |-> <<>>, list |-> pr.list, names |-> pr.names]
\* expr("n") on a one-token match: the token under the name n
Named(pr, n) == IF pr.end = Fail THEN NoMatch
                ELSE Match(pr.end, pr.list, (n :> pr.list[1].text) @@ pr.names)
\* the match a followed by the match b: tokens in order, later names
\* replacing earlier ones; no match when b is none
Then(a, b) == IF b.end = Fail THEN NoMatch
              ELSE Match(b.end, a.list \o b.list, b.names @@ a.names)
\* results.n: the named result, '' when the name is not set
Attr(res, n) == IF n \in DOMAIN res.names THEN res.names[n] ELSE <<>>

\* ------------------------------------------------------------ combinators
\* a | b (MatchFirst): b is tried only when a does not match
MatchFirst(a, b) == IF a.end # Fail THEN a ELSE b

\* the positions of s at which an expression may be tried
Pos(s) == 1..(Len(s) + 1)

\* a + B (And): B, the match of the next expression at each position, is
\* taken where a ends
And(a, B) == IF a.end = Fail THEN NoMatch ELSE Then(a, B[a.end])

\* a + Optional(B)
AndOptional(a, B) ==
  IF a.end = Fail THEN NoMatch ELSE MatchFirst(Then(a, B[a.end]), a)

Literal(s, i, x) ==
  IF i <= Len(s) /\ s[i] = x THEN Match(i + 1, <<Tok(<<x>>)>>, NoNames) ELSE NoMatch

Keyword(s, i, k) ==
  IF /\ i <= Len(s)
     /\ s[i] = k
     /\ (i = 1 \/ s[i - 1] \notin identChars)
     /\ (i = Len(s) \/ s[i + 1] \notin identChars)
  THEN Match(i + 1, <<Tok(<<k>>)>>, NoNames) ELSE NoMatch

RECURSIVE RunEnd(_, _, _)
RunEnd(s, i, chars) ==
  IF i <= Len(s) /\ s[i] \in chars THEN RunEnd(s, i + 1, chars) ELSE i

\* Word(chars): the longest run of symbols of chars, one at least
Word(s, i, chars) ==
  IF i <= Len(s) /\ s[i] \in chars
  THEN Match(RunEnd(s, i + 1, chars),
             <<Tok(SubSeq(s, i, RunEnd(s, i + 1, chars) - 1))>>, NoNames)
  ELSE NoMatch

\* originalTextFor(expr): one token, the source text of the match
originalTextFor(s, i, pr) ==
  IF pr.end = Fail THEN NoMatch
  ELSE Match(pr.end, <<Tok(SubSeq(s, i, pr.end - 1))>>, NoNames)

\* Suppress(expr): the match without its tokens
Suppress(pr) == IF pr.end = Fail THEN NoMatch ELSE Match(pr.end, <<>>, NoNames)

\* Group(expr): the match as one nested ParseResults
Group(pr) == IF pr.end = Fail THEN NoMatch ELSE Match(pr.end, <<Grp(pr)>>, NoNames)

\* ------------------------------------------------------------ grammar
RECURSIVE field_type(_, _)
RECURSIVE scalar_type(_, _)
RECURSIVE nestedExpr(_, _, _)
RECURSIVE ZeroOrMore(_, _, _)
RECURSIVE delimitedTail(_, _, _)
RECURSIVE OneOrMoreWord(_, _)

field_name(s, i) == Word(s, i, alphanums)

\* the rest of OneOrMore(Word(alphanums + "_")) after the words of acc
MoreWords(s, acc, w) ==
  IF w.end = Fail THEN acc ELSE OneOrMoreWord(s, Then(acc, w))
OneOrMoreWord(s, acc) ==
  IF acc.end = Fail THEN NoMatch ELSE MoreWords(s, acc, Word(s, acc.end, alphanums))

\* scalar_quantifier = "(" + Word(nums) + Optional(")" | "," + Word(nums) + ")")
scalar_quantifier(s, i) ==
  AndOptional(And(Literal(s, i, "("), [j \in Pos(s) |-> Word(s, j, nums)]),
              [j \in Pos(s) |->
                 MatchFirst(Literal(s, j, ")"),
                            And(And(Literal(s, j, ","),
                                    [k \in Pos(s) |-> Word(s, k, nums)]),
                                [k \in Pos(s) |-> Literal(s, k, ")")]))])

\* struct_field = field_name("name") + ":" + field_type("type")
struct_field(s, i) ==
  And(And(Named(field_name(s, i), "name"), [j \in Pos(s) |-> Literal(s, j, ":")]),
      [j \in Pos(s) |-> Named(field_type(s, j), "type")])

\* the element of a delimitedList: field_type (union_list) or
\* Group(struct_field) (struct_list)
listElement(s, i, kind) ==
  IF kind = "struct" THEN Group(struct_field(s, i)) ELSE field_type(s, i)

\* ZeroOrMore(Suppress(",") + expr) after the elements of acc
delimitedMore(s, kind, acc, e) ==
  IF e.end = Fail THEN acc ELSE delimitedTail(s, kind, Then(acc, e))
delimitedTail(s, kind, acc) ==
  IF acc.end = Fail THEN NoMatch
  ELSE delimitedMore(s, kind, acc,
                     And(Suppress(Literal(s, acc.end, ",")),
                         [j \in Pos(s) |-> listElement(s, j, kind)]))

\* delimitedList(expr) = expr + ZeroOrMore(Suppress(",") + expr)
delimitedList(s, i, kind) == delimitedTail(s, kind, listElement(s, i, kind))

union_list(s, i) == delimitedList(s, i, "uniontype")
struct_list(s, i) == delimitedList(s, i, "struct")

union_type(s, i) == nestedExpr(s, i, "uniontype")

\* scalar_type = union_type | OneOrMore(Word(alphanums + "_")) + Optional(scalar_quantifier)
scalar_type(s, i) ==
  MatchFirst(union_type(s, i),
             AndOptional(OneOrMoreWord(s, Word(s, i, alphanums)),
                         [j \in Pos(s) |-> scalar_quantifier(s, j)]))

\* array_field = "<" + field_type("type")
array_field(s, i) ==
  And(Literal(s, i, "<"), [j \in Pos(s) |-> Named(field_type(s, j), "type")])

\* map_field = originalTextFor(scalar_type)("key") + "," + field_type("type")
map_field(s, i) ==
  And(And(Named(originalTextFor(s, i, scalar_type(s, i)), "key"),
          [j \in Pos(s) |-> Literal(s, j, ",")]),
      [j \in Pos(s) |-> Named(field_type(s, j), "type")])

\* the opener of each nestedExpr: array_keyword, and keyword + "<" for the others
opener(s, i, kind) ==
  IF kind = "array" THEN Keyword(s, i, kind)
  ELSE And(Keyword(s, i, kind), [j \in Pos(s) |-> Literal(s, j, "<")])

\* the content of each nestedExpr
content(s, i, kind) ==
  CASE kind = "array" -> array_field(s, i)
    [] kind = "map" -> map_field(s, i)
    [] kind = "struct" -> struct_list(s, i)
    [] kind = "uniontype" -> union_list(s, i)

\* ZeroOrMore(ret | content) after the matches of acc
OneMore(s, kind, acc, c) ==
  IF c.end = Fail THEN acc ELSE ZeroOrMore(s, kind, Then(acc, c))
ZeroOrMore(s, kind, acc) ==
  OneMore(s, kind, acc,
          MatchFirst(nestedExpr(s, acc.end, kind), content(s, acc.end, kind)))

\* nestedExpr(opener, closer=">", content, ignoreExpr=None):
\* ret <<= Group(Suppress(opener) + ZeroOrMore(ret | content) + Suppress(closer))
nestedExpr(s, i, kind) ==
  Group(And(And(Suppress(opener(s, i, kind)),
                [j \in Pos(s) |-> ZeroOrMore(s, kind, Empty(j))]),
            [j \in Pos(s) |-> Suppress(Literal(s, j, ">"))]))

array_type(s, i) == nestedExpr(s, i, "array")
map_type(s, i) == nestedExpr(s, i, "map")
struct_type(s, i) == nestedExpr(s, i, "struct")

\* field_type <<= originalTextFor(array_type | map_type | struct_type | scalar_type)
field_type(s, i) ==
  originalTextFor(s, i,
    MatchFirst(array_type(s, i),
      MatchFirst(map_type(s, i),
        MatchFirst(struct_type(s, i), scalar_type(s, i)))))

\* expr("n") on an alternative of complex_type: the matched tokens under the
\* name n (ParseResults sets no name on an empty token list)
NamedList(pr, n) ==
  IF pr.end = Fail \/ pr.list = <<>> THEN pr
  ELSE Match(pr.end, pr.list, (n :> pr.list) @@ pr.names)

\* complex_type = (array_type("array_type") | map_type("map_type") |
\*                 struct_type("struct_type") | scalar_type("scalar_type"))
complex_type(s, i) ==
  MatchFirst(NamedList(array_type(s, i), "array_type"),
    MatchFirst(NamedList(map_type(s, i), "map_type"),
      MatchFirst(NamedList(struct_type(s, i), "struct_type"),
                 NamedList(scalar_type(s, i), "scalar_type"))))

\* parseAll=True: no match unless the match ends at the end of the text
parseAll(s, pr) == IF pr.end = Len(s) + 1 THEN pr ELSE NoMatch

\* complex_type.parseString(type_str, parseAll=True): ParseException (no
\* match) unless the first matching alternative takes the whole text
parseString(s) == parseAll(s, complex_type(s, 1))

\* mutant of Truthy: a named result holding one empty Group counts as false
Truthy_empty_group_false(parsed, n) ==
  /\ Attr(parsed, n) # <<>>
  /\ ~(Attr(parsed, n)[1].g /\ Attr(parsed, n)[1].list = <<>>)

\* `if parsed_type.n:` the truth value of a named result ('' when not set)
Truthy(parsed, n) == Attr(parsed, n) # <<>>

\* ------------------------------------------------------------ TypeMetadata
\* Objects live in a heap, a sequence of nodes; an object is its index.
None == -1
NoNode == 0
Column == -2

TypeMetadata(kind, name, parent, type_str) ==
  [kind |-> kind, name |-> name, parent |-> parent, type_str |-> type_str,
   sort_order |-> None, array_inner_type |-> NoNode, map_key_type |-> NoNode,
   map_value_type |-> NoNode, struct_items |-> <<>>]

\* the state of a call: the heap, LOGGER's warnings, the object returned
\* last, and whether the call raised
New(st, node) ==
  [st EXCEPT !.heap = Append(@, node), !.ret = Len(st.heap) + 1]

warning(st, type_str) == [st EXCEPT !.log = Append(@, type_str)]

\* mutant of set_array_inner_type: the element is attached whatever it is
set_array_inner_type_always(st, array, inner) ==
  [st EXCEPT !.heap[array].array_inner_type = inner, !.ret = array]

\* lines 78-80: the element is attached unless it is a ScalarTypeMetadata
set_array_inner_type(st, array, inner) ==
  IF st.heap[inner].kind # "Scalar"
  THEN [st EXCEPT !.heap[array].array_inner_type = inner, !.ret = array]
  ELSE [st EXCEPT !.ret = array]

\* line 85
set_map_key_type(st, map, key) ==
  [st EXCEPT !.heap[map].map_key_type = key]

\* mutant of set_map_value_type: a scalar value is left out, as for an array
set_map_value_type_collapsed(st, map, value) ==
  IF st.heap[value].kind # "Scalar"
  THEN [st EXCEPT !.heap[map].map_value_type = value, !.ret = map]
  ELSE [st EXCEPT !.ret = map]

\* lines 86-87
set_map_value_type(st, map, value) ==
  [st EXCEPT !.heap[map].map_value_type = value, !.ret = map]

\* mutant of dict_set: the first value of a key is kept
dict_set_first_wins(items, name, node) ==
  IF \E k \in 1..Len(items) : items[k][1] = name
  THEN items
  ELSE Append(items, <<name, node>>)

\* struct_items[name] = node, on a dict kept as its (key, value) pairs in
\* insertion order: a key already present keeps its place
dict_set(items, name, node) ==
  IF \E k \in 1..Len(items) : items[k][1] = name
  THEN [k \in 1..Len(items) |->
          IF items[k][1] = name THEN <<name, node>> ELSE items[k]]
  ELSE Append(items, <<name, node>>)

\* mutant of set_sort_order: a 1-based index
set_sort_order_one_based(st, node, index) ==
  [st EXCEPT !.heap[node].sort_order = index + 1]

\* line 95: the 0-based index of enumerate
set_sort_order(st, node, index) ==
  [st EXCEPT !.heap[node].sort_order = index]

\* line 97
set_struct_items(st, struct, items) ==
  [st EXCEPT !.heap[struct].struct_items = items, !.ret = struct]

\* mutant of map_value_name: the key's name given to the value
map_value_name_as_key == <<"_map_key">>

inner_name == <<"_inner_">>
map_key_name == <<"_map_key">>
map_value_name == <<"_map_value">>

RECURSIVE parse_hive_type(_, _, _, _)
RECURSIVE struct_loop(_, _, _, _, _)

\* lines 77-80, after the recursive call has left st
array_case(st, array) ==
  IF st.raised THEN st ELSE set_array_inner_type(st, array, st.ret)

\* line 86-87, after the recursive call for the value has left st
map_value_case(st, map) ==
  IF st.raised THEN st ELSE set_map_value_type(st, map, st.ret)

\* lines 85-87, after the recursive call for the key has left st
map_key_case(st, map, results) ==
  IF st.raised THEN st
  ELSE map_value_case(parse_hive_type(set_map_key_type(st, map, st.ret),
                                      Attr(results, "type"), map_value_name, map),
                      map)

\* lines 94-95, after the recursive call for the field result has left st
struct_field_case(st, results, index, items, struct) ==
  IF st.raised THEN st
  ELSE struct_loop(set_sort_order(st, st.ret, index), results, index + 1,
                   dict_set(items, Attr(results.list[index + 1], "name"), st.ret),
                   struct)

\* lines 93-97: the loop over enumerate(results), index 0-based, then the
\* assignment of struct_items
struct_loop(st, results, index, items, struct) ==
  IF index >= Len(results.list)
  THEN set_struct_items(st, struct, items)
  ELSE struct_field_case(
         parse_hive_type(st, Attr(results.list[index + 1], "type"),
                         Attr(results.list[index + 1], "name"), struct),
         results, index, items, struct)

\* lines 72-100, st the state after the node of the matched kind was made
complex_case(st, parsed_type, results) ==
  IF Truthy(parsed_type, "array_type")
  THEN array_case(parse_hive_type(st, Attr(results, "type"), inner_name, st.ret),
                  st.ret)
  ELSE IF Truthy(parsed_type, "map_type")
  THEN map_key_case(parse_hive_type(st, Attr(results, "key"), map_key_name, st.ret),
                    st.ret, results)
  ELSE struct_loop(st, results, 0, <<>>, st.ret)

\* the class line 73, 81 or 88 chooses
complex_kind(parsed_type) ==
  IF Truthy(parsed_type, "array_type") THEN "Array"
  ELSE IF Truthy(parsed_type, "map_type") THEN "Map"
  ELSE IF Truthy(parsed_type, "struct_type") THEN "Struct"
  ELSE "Unrecognized"

\* lines 58-100, parsed_type the outcome of parseString on the lower-cased
\* string
dispatch(st, parsed_type, type_str, name, parent) ==
  IF parsed_type.end = Fail
  THEN New(warning(st, type_str), TypeMetadata("Scalar", name, parent, type_str))
  ELSE IF Truthy(parsed_type, "scalar_type")
  THEN New(st, TypeMetadata("Scalar", name, parent, type_str))
  ELSE IF complex_kind(parsed_type) = "Unrecognized"
  THEN [st EXCEPT !.raised = TRUE]
  ELSE complex_case(New(st, TypeMetadata(complex_kind(parsed_type), name, parent,
                                         type_str)),
                    parsed_type, parsed_type.list[1])

parse_hive_type(st, type_str, name, parent) ==
  dispatch(st, parseString(lower(type_str)), lower(type_str), name, parent)

\* ------------------------------------------------------------ inputs
\* the lower-case symbols
Alphabet == {"array", "map", "struct", "uniontype", "<", ">", ",", ":",
             "(", ")", "a", "1"}

\* every string of at most n symbols
Strings(n) == UNION {[1..k -> Alphabet] : k \in 0..n}

\* scalar type strings
Leaves == {<<"a">>, <<"A">>, <<"a", "(", "1", ",", "1", ")">>,
           <<"uniontype", "<", "a", ",", "1", ">">>}

Keys == {<<"a">>, <<"uniontype", "<", "a", ">">>}

\* the type strings that nest t one level deeper
Wrap(t) ==
  {<<"array", "<">> \o t \o <<">">>,
   <<"ARRAY", "<">> \o t \o <<">">>,
   <<"array", "<">> \o t \o <<"<", "a", ">">>,
   <<"uniontype", "<">> \o t \o <<">">>,
   <<"uniontype", "<", "a", ",">> \o t \o <<">">>,
   <<"struct", "<", "a", ":">> \o t \o <<">">>,
   <<"struct", "<", "a", ":">> \o t \o <<",", "1", ":", "a", ">">>,
   <<"struct", "<", "a", ":">> \o t \o <<",", "a", ":", "1", ">">>,
   <<"struct", "<", "a", ":", "a", ",", "1", ":", "a", ",", "a", ":">> \o t \o <<">">>}
  \cup {<<"map", "<">> \o k \o <<",">> \o t \o <<">">> : k \in Keys}

RECURSIVE Types(_)
Types(d) ==
  IF d = 0 THEN Leaves
  ELSE Types(d - 1) \cup UNION {Wrap(t) : t \in Types(d - 1)}
         \cup {<<"array", ">">>, <<"map", "<", ">">>, <<"struct", "<", ">">>,
               <<"uniontype", "<", ">">>}

\* a type string cut short by one symbol
Truncated(T) == {SubSeq(t, 1, Len(t) - 1) : t \in T}

TypeStrings == Strings(MaxLen) \cup Types(MaxDepth) \cup Truncated(Types(MaxDepth))

Names == {<<"col">>, <<"a">>}

\* ------------------------------------------------------------ the call
VARIABLES type_str, name, pc, heap, log, ret

vars == <<type_str, name, pc, heap, log, ret>>

Init ==
  /\ type_str \in TypeStrings
  /\ name \in Names
  /\ pc = "call"
  /\ heap = <<>>
  /\ log = <<>>
  /\ ret = NoNode

\* parse_hive_type(type_str, name, parent) called by the column's owner
Call ==
  /\ pc = "call"
  /\ \E st \in {parse_hive_type([heap |-> <<>>, log |-> <<>>, ret |-> NoNode,
                                  raised |-> FALSE], type_str, name, Column)} :
        /\ heap' = st.heap
        /\ log' = st.log
        /\ ret' = IF st.raised THEN NoNode ELSE st.ret
        /\ pc' = IF st.raised THEN "raised" ELSE "returned"
  /\ UNCHANGED <<type_str, name>>

Next == Call

Spec == Init /\ [][Next]_vars

\* ------------------------------------------------------------ properties
Returned == pc = "returned"
Root == heap[ret]
ResultNames == {"scalar_type", "array_type", "map_type", "struct_type"}

\* the lower-cased form of a string of the model's alphabet
CaseFold(s) ==
  [k \in 1..Len(s) |->
     IF s[k] = "A" THEN "a" ELSE IF s[k] = "ARRAY" THEN "array" ELSE s[k]]

\* the grammar's match of the whole input, and of a node's raw string
Parsed == parseString(CaseFold(type_str))
Matched == Parsed.end # Fail
ParsedNode(h, x) == parseString(h[x].type_str)
ResultsOf(h, x) == ParsedNode(h, x).list[1]

\* the objects a node holds in its child slots
Children(h, x) ==
  ({h[x].array_inner_type, h[x].map_key_type, h[x].map_value_type} \ {NoNode})
    \cup {h[x].struct_items[k][2] : k \in 1..Len(h[x].struct_items)}

RECURSIVE Reach(_, _)
Reach(h, S) ==
  LET N == S \cup UNION {Children(h, x) : x \in S}
  IN IF N = S THEN S ELSE Reach(h, N)

\* the objects of the returned tree
Tree == IF Returned THEN Reach(heap, {ret}) ELSE {}

\* a tree as a value: what two structurally equal trees have in common
RECURSIVE Shape(_, _)
Shape(h, x) ==
  IF x = NoNode THEN <<>>
  ELSE <<h[x].kind, h[x].name, h[x].type_str, h[x].sort_order,
         Shape(h, h[x].array_inner_type),
         Shape(h, h[x].map_key_type),
         Shape(h, h[x].map_value_type),
         [k \in 1..Len(h[x].struct_items) |->
            <<h[x].struct_items[k][1], Shape(h, h[x].struct_items[k][2])>>]>>

\* a call of its own on the text t with the name n
Build(t, n) ==
  parse_hive_type([heap |-> <<>>, log |-> <<>>, ret |-> NoNode, raised |-> FALSE],
                  t, n, Column)
BuiltShape(t, n) == LET st == Build(t, n) IN Shape(st.heap, st.ret)
BuiltKind(t, n) == LET st == Build(t, n) IN st.heap[st.ret].kind

Count(s, c) == Cardinality({k \in 1..Len(s) : s[k] = c})

\* the (name, type text) pairs a struct node's raw string declares, in order
Declared(h, x) ==
  LET res == ResultsOf(h, x)
  IN [k \in 1..Len(res.list) |->
        <<Attr(res.list[k], "name"), Attr(res.list[k], "type")>>]
LastIndex(decl, n) ==
  CHOOSE k \in 1..Len(decl) :
    decl[k][1] = n /\ \A j \in (k + 1)..Len(decl) : decl[j][1] # n
Distinct(decl) ==
  \A j, k \in 1..Len(decl) : j # k => decl[j][1] # decl[k][1]

C2_MismatchIsScalar ==
  (Returned /\ (~Matched \/ Count(type_str, "<") > Count(type_str, ">")))
    => /\ Root.kind = "Scalar"
       /\ Root.type_str = CaseFold(type_str)
       /\ log = <<CaseFold(type_str)>>

\* C3: for an input matched as an array, the root is an Array whose element
\* is set exactly when the build of the captured element text is not a
\* Scalar, and is then the node that build returns
C3_ArrayCollapse ==
  (Returned /\ Matched /\ Truthy(Parsed, "array_type"))
    => LET T == Attr(Parsed.list[1], "type")
       IN /\ Root.kind = "Array"
          /\ (Root.array_inner_type # NoNode) <=> (BuiltKind(T, <<"_inner_">>) # "Scalar")
          /\ Root.array_inner_type # NoNode
               => /\ Root.array_inner_type = ret + 1
                  /\ Shape(heap, Root.array_inner_type) = BuiltShape(T, <<"_inner_">>)

\* C3 witness: array<struct<a:a,1:a>> has a Struct element with two fields
C3_Witness ==
  /\ Returned
  /\ type_str = <<"array", "<", "struct", "<", "a", ":", "a", ",", "1", ":", "a", ">", ">">>
  /\ Root.kind = "Array"
  /\ Root.array_inner_type # NoNode
  /\ heap[Root.array_inner_type].kind = "Struct"
  /\ Len(heap[Root.array_inner_type].struct_items) = 2

\* C4: every Map node of the returned tree has its key and its value set, to
\* the builds of the captured key text and of the captured value text
C4_MapNeverCollapsed ==
  \A x \in Tree :
    heap[x].kind = "Map"
      => /\ heap[x].map_key_type # NoNode
         /\ heap[x].map_value_type # NoNode
         /\ heap[x].map_key_type # heap[x].map_value_type
         /\ Shape(heap, heap[x].map_key_type)
              = BuiltShape(Attr(ResultsOf(heap, x), "key"), <<"_map_key">>)
         /\ Shape(heap, heap[x].map_value_type)
              = BuiltShape(Attr(ResultsOf(heap, x), "type"), <<"_map_value">>)

\* C4 witness: map<a,a(1,1)> has a Scalar key "a" and a Scalar value "a(1,1)"
C4_Witness ==
  /\ Returned
  /\ type_str = <<"map", "<", "a", ",", "a", "(", "1", ",", "1", ")", ">">>
  /\ Root.kind = "Map"
  /\ heap[Root.map_key_type].kind = "Scalar"
  /\ heap[Root.map_key_type].type_str = <<"a">>
  /\ heap[Root.map_value_type].kind = "Scalar"
  /\ heap[Root.map_value_type].type_str = <<"a", "(", "1", ",", "1", ")">>

\* the fields of a Struct node have unique names and the sort orders
\* 0, 1, ..., n-1 in the order of the mapping
ContiguousFields(x) ==
  LET items == heap[x].struct_items
  IN /\ \A j, k \in 1..Len(items) : j # k => items[j][1] # items[k][1]
     /\ \A k \in 1..Len(items) : heap[items[k][2]].sort_order = k - 1

\* C5 (as claimed): every Struct node of the returned tree, whatever its
\* field names, has unique field names and sort orders 0, 1, ..., n-1
C5_AnyNames ==
  \A x \in Tree : heap[x].kind = "Struct" => ContiguousFields(x)

\* C5 (amended): every Struct node of the returned tree has unique field
\* names, and when the names it declares are pairwise distinct it holds one
\* field per declaration, in declaration order, with sort orders 0, 1, ..., n-1
C5_DistinctNames ==
  \A x \in Tree :
    heap[x].kind = "Struct"
      => LET items == heap[x].struct_items
             decl == Declared(heap, x)
         IN /\ \A j, k \in 1..Len(items) : j # k => items[j][1] # items[k][1]
            /\ Distinct(decl)
                 => /\ Len(items) = Len(decl)
                    /\ \A k \in 1..Len(items) :
                         /\ items[k][1] = decl[k][1]
                         /\ heap[items[k][2]].sort_order = k - 1

\* C5 witness: a struct of two or more fields with distinct names has been built
C5_Witness ==
  /\ Returned
  /\ Root.kind = "Struct"
  /\ Distinct(Declared(heap, ret))
  /\ Len(Root.struct_items) >= 2
  /\ heap[Root.struct_items[2][2]].sort_order = 1

\* the text the grammar captured for the child c of the node x
CapturedFor(x, c) ==
  LET res == ResultsOf(heap, x)
      decl == Declared(heap, x)
  IN IF heap[x].array_inner_type = c \/ heap[x].map_value_type = c
     THEN Attr(res, "type")
     ELSE IF heap[x].map_key_type = c THEN Attr(res, "key")
     ELSE decl[LastIndex(decl, heap[c].name)][2]

\* t occurs in s as a run of consecutive symbols
Substring(t, s) ==
  \E i \in 1..(Len(s) + 1) :
    i + Len(t) - 1 <= Len(s) /\ SubSeq(s, i, i + Len(t) - 1) = t

\* C6: the root's raw string is the whole lower-cased input, and the raw
\* string of every child in the tree is the text the grammar captured for it
\* in its parent's raw string, a lower-case part of that string
C6_RawTypeString ==
  /\ Returned => Root.type_str = CaseFold(type_str)
  /\ \A x \in Tree : \A c \in Children(heap, x) :
       /\ heap[c].type_str = CapturedFor(x, c)
       /\ Substring(heap[c].type_str, heap[x].type_str)
       /\ heap[c].type_str = CaseFold(heap[c].type_str)

\* C6 witness: an input with upper-case symbols whose tree has a child, and
\* a parameterized scalar kept with its quantifier
C6_Witness ==
  /\ Returned
  /\ type_str # CaseFold(type_str)
  /\ \E x \in Tree : \E c \in Children(heap, x) :
       heap[c].type_str = <<"a", "(", "1", ",", "1", ")">>

\* the body of a union, member by member: each member is a type string the
\* grammar matches
RECURSIVE Members(_)
Members(body) ==
  \/ parseString(CaseFold(body)).end # Fail
  \/ \E k \in 2..(Len(body) - 1) :
       /\ body[k] = ","
       /\ parseString(CaseFold(SubSeq(body, 1, k - 1))).end # Fail
       /\ Members(SubSeq(body, k + 1, Len(body)))

UnionForm(s) ==
  /\ Len(s) >= 4
  /\ CaseFold(s)[1] = "uniontype"
  /\ s[2] = "<"
  /\ s[Len(s)] = ">"
  /\ Members(SubSeq(s, 3, Len(s) - 1))

\* C7 (as claimed): an input uniontype<T1,...,Tn> is matched by the grammar
\* as a scalar and gives one Scalar node, holding the whole lower-cased
\* input, and no node for a member; and a Scalar node's text is matched as a
\* scalar or fails the grammar
C7_UnionFlattened ==
  /\ (Returned /\ UnionForm(type_str))
       => /\ Matched /\ Truthy(Parsed, "scalar_type")
          /\ log = <<>>
          /\ Root.kind = "Scalar"
          /\ Root.type_str = CaseFold(type_str)
          /\ Len(heap) = 1
  /\ \A x \in 1..Len(heap) :
       heap[x].kind = "Scalar"
         => \/ ParsedNode(heap, x).end = Fail
            \/ Truthy(ParsedNode(heap, x), "scalar_type")

\* C8: the root has the caller's name and parent, and every child in the
\* tree has the node holding it as parent and the name of its slot
C8_ParentAndName ==
  /\ Returned => Root.name = name /\ Root.parent = Column
  /\ \A x \in Tree :
       /\ \A c \in Children(heap, x) : heap[c].parent = x
       /\ heap[x].array_inner_type # NoNode
            => heap[heap[x].array_inner_type].name = <<"_inner_">>
       /\ heap[x].map_key_type # NoNode
            => heap[heap[x].map_key_type].name = <<"_map_key">>
       /\ heap[x].map_value_type # NoNode
            => heap[heap[x].map_value_type].name = <<"_map_value">>
       /\ \A k \in 1..Len(heap[x].struct_items) :
            heap[heap[x].struct_items[k][2]].name = heap[x].struct_items[k][1]

\* C8 witness: a struct holding a map has been built
C8_Witness ==
  /\ Returned
  /\ Root.kind = "Struct"
  /\ \E k \in 1..Len(Root.struct_items) :
       /\ heap[Root.struct_items[k][2]].kind = "Map"
       /\ heap[heap[Root.struct_items[k][2]].map_value_type].parent
            = Root.struct_items[k][2]

\* C9: a Struct node holds one field per declared name, built from the last
\* declaration of that name and with that declaration's 0-based index as
\* sort order, and the nodes built for the other declarations are not in the
\* returned tree
C9_LastWriteWins ==
  \A x \in Tree :
    heap[x].kind = "Struct"
      => LET items == heap[x].struct_items
             decl == Declared(heap, x)
             built == {y \in 1..Len(heap) : heap[y].parent = x}
             held == {items[k][2] : k \in 1..Len(items)}
         IN /\ {items[k][1] : k \in 1..Len(items)} = {decl[k][1] : k \in 1..Len(decl)}
            /\ Cardinality(held) = Len(items)
            /\ Cardinality({decl[k][1] : k \in 1..Len(decl)}) = Len(items)
            /\ Cardinality(built) = Len(decl)
            /\ \A k \in 1..Len(items) :
                 LET last == LastIndex(decl, items[k][1])
                 IN /\ heap[items[k][2]].sort_order = last - 1
                    /\ heap[items[k][2]].type_str = decl[last][2]
                    /\ \A y \in built :
                         heap[y].name = items[k][1] => y <= items[k][2]
            /\ (built \ held) \cap Tree = {}

\* C9 witness: a struct declaring the same name twice has been built
C9_Witness ==
  /\ Returned
  /\ Root.kind = "Struct"
  /\ ~Distinct(Declared(heap, ret))
  /\ Len(Root.struct_items) < Len(Declared(heap, ret))
  /\ Len(heap) > Cardinality(Tree)

\* C10 (as claimed): a call logs at most one warning, and logs it only when
\* the whole input fails the grammar
C10_OneWarningAtTop ==
  Returned => /\ Len(log) <= 1
              /\ log # <<>> => ~Matched

====
